---- MODULE Spec2Model ----
(***************************************************************************)
(* Retry subsystem of the campaign module: the retry decision logic        *)
(* (RetryService), the in-memory retry state store (CampaignService,       *)
(* campaignRetryStates) and the periodic scheduler (RetryEngine).          *)
(*                                                                         *)
(* Time is counted in whole hours; an ISO timestamp is modelled by its     *)
(* hour.  The JavaScript value undefined/null of a timestamp is Undefined. *)
(***************************************************************************)
EXTENDS Integers, Sequences, FiniteSets, TLC

\* ------------------------------------------------------------------ bounds

\* The clock never passes MaxTime hours.
MaxTime == 24
\* A batch is only dispatched while the attempts of the run, stored and in
\* flight together, stay within MaxAttempts.
MaxAttempts == 2
\* config.maxConcurrentRetries of the engine of Spec.
maxConcurrentRetries == 1

\* Campaign ids, hours the clock advances by, and the deadlines callers pass.
\* Steps taken at one value of the clock are less than an hour apart: timer
\* fires 60 s apart, executor answers 100 ms after the dispatch.
Campaigns == {"c1", "c2"}
ClockSteps == {24}
TtlValues == {0, 72}

\* A processRetries execution in progress awaits at least one attempt, so no
\* more than MaxAttempts of them are in progress at once.
MaxTicks == MaxAttempts

Undefined == 0 - 1
NoError == "undefined"

\* ------------------------------------------------------------- policy table

RetryErrorCode == {"131049", "130472", "132015"}

\* Error codes a caller can pass at run time that the policy table lacks.
UnknownErrorCodes == {"131026", "131000"}

\* DEFAULT_RETRY_POLICIES with a fallback policy for the codes it lacks.
DEFAULT_RETRY_POLICIES_WithFallback ==
    [code \in RetryErrorCode \cup UnknownErrorCodes |->
        CASE code = "131049" ->
                 [retryIntervals |-> <<12, 24, 48>>, requiresTemplateActive |-> FALSE]
          [] code = "132015" ->
                 [retryIntervals |-> <<24>>, requiresTemplateActive |-> TRUE]
          [] OTHER ->
                 [retryIntervals |-> <<24, 24, 24>>, requiresTemplateActive |-> FALSE]]

DEFAULT_RETRY_POLICIES ==
    [code \in RetryErrorCode |->
        CASE code = "131049" ->
                [retryIntervals |-> <<12, 24, 48>>, requiresTemplateActive |-> FALSE]
          [] code = "130472" ->
                [retryIntervals |-> <<24, 24, 24>>, requiresTemplateActive |-> FALSE]
          [] code = "132015" ->
                [retryIntervals |-> <<24>>, requiresTemplateActive |-> TRUE]]

\* ---------------------------------------------------------------- variables

VARIABLES
    now,                  \* the wall clock, in hours (new Date())
    campaignRetryStates,  \* the Map, as its entries in insertion order
    isRunning,            \* RetryEngine.isRunning
    retryInterval,        \* RetryEngine.retryInterval is a timer handle (not null)
    timers,               \* number of interval timers alive in the runtime
    ticks,                \* processRetries executions in progress, by slot
    config,               \* RetryEngine.config, as given to the constructor
    templateActive,       \* what the template service answers isTemplateActive
    blocked,              \* history: campaigns whose latest decision was
                          \* "Template is still paused, retry blocked"
    campaignsTable,       \* the rows of the Supabase table campaigns: retry_ttl
                          \* and scheduled_at of each campaign
    lastCall              \* the latest direct call of a static function of
                          \* RetryService or RetryEngine, with its result

vars == <<now, campaignRetryStates, isRunning, retryInterval, timers, ticks,
          config, templateActive, blocked, campaignsTable, lastCall>>

\* ------------------------------------------------------------------ the Map

MapKeys(m) == {m[i].campaignId : i \in 1..Len(m)}

MapHas(m, k) == k \in MapKeys(m)

MapIndex(m, k) == CHOOSE i \in 1..Len(m) : m[i].campaignId = k

MapGet(m, k) == m[MapIndex(m, k)].retryState

\* Map.set that moves a present key to the last position.
MapSet_MovesToEnd(m, k, v) ==
    Append(SelectSeq(m, LAMBDA e : e.campaignId # k),
           [campaignId |-> k, retryState |-> v])

\* Map.set: a present key keeps its position, a new key goes last.
MapSet(m, k, v) ==
    IF MapHas(m, k)
    THEN [m EXCEPT ![MapIndex(m, k)].retryState = v]
    ELSE Append(m, [campaignId |-> k, retryState |-> v])

\* -------------------------------------------------------------- RetryService

\* isRetryTtlExpired with now >= ttl in place of now > ttl.
isRetryTtlExpired_AtDeadline(ttlDateTime, clock) == clock >= ttlDateTime

isRetryTtlExpired(ttlDateTime, clock) == clock > ttlDateTime

NoRetry == [nextAttemptAt |-> Undefined, shouldRetry |-> FALSE]

\* calculateNextRetryAttempt without the comparison of the candidate with the
\* deadline.
calculateNextRetryAttempt_NoDeadlineCheck(errorCode, attemptIndex, lastAttempt, ttlDateTime, clock) ==
    IF isRetryTtlExpired(ttlDateTime, clock) THEN NoRetry
    ELSE IF errorCode \notin DOMAIN DEFAULT_RETRY_POLICIES THEN NoRetry
    ELSE LET policy == DEFAULT_RETRY_POLICIES[errorCode] IN
         IF attemptIndex >= Len(policy.retryIntervals) THEN NoRetry
         ELSE [nextAttemptAt |-> lastAttempt + policy.retryIntervals[attemptIndex + 1],
               shouldRetry |-> TRUE]

calculateNextRetryAttempt(errorCode, attemptIndex, lastAttempt, ttlDateTime, clock) ==
    IF isRetryTtlExpired(ttlDateTime, clock) THEN NoRetry
    ELSE IF errorCode \notin DOMAIN DEFAULT_RETRY_POLICIES THEN NoRetry
    ELSE LET policy == DEFAULT_RETRY_POLICIES[errorCode] IN
         IF attemptIndex >= Len(policy.retryIntervals) THEN NoRetry
         ELSE LET retryDelayHours == policy.retryIntervals[attemptIndex + 1]
                  nextAttempt == lastAttempt + retryDelayHours
              IN  IF nextAttempt > ttlDateTime THEN NoRetry
                  ELSE [nextAttemptAt |-> nextAttempt, shouldRetry |-> TRUE]

\* The answer of the template service.  The placeholder of the source reports
\* every template active: templateActive is TRUE unless a specification lets
\* the service answer otherwise.
isTemplateActive(templateId) == templateActive

\* The attempt index and the last attempt time processRetryAttempt passes on.
currentAttempt(retryState) == Len(retryState.attempts)

lastAttemptAt(retryState, clock) ==
    IF retryState.lastAttemptAt # Undefined THEN retryState.lastAttemptAt ELSE clock

\* processRetryAttempt that looks up the policy before it tests enabled and
\* the deadline.
processRetryAttempt_PolicyFirst(campaignId, errorCode, retryState, clock) ==
    LET retryConfig == retryState.retryConfig IN
    IF errorCode \notin DOMAIN DEFAULT_RETRY_POLICIES
    THEN [shouldRetry |-> FALSE, nextAttemptAt |-> Undefined, reason |-> "no policy"]
    ELSE IF ~retryConfig.enabled
    THEN [shouldRetry |-> FALSE, nextAttemptAt |-> Undefined, reason |-> "disabled"]
    ELSE IF retryConfig.ttlDateTime = Undefined
            \/ isRetryTtlExpired(retryConfig.ttlDateTime, clock)
    THEN [shouldRetry |-> FALSE, nextAttemptAt |-> Undefined, reason |-> "expired"]
    ELSE IF errorCode = "132015" /\ DEFAULT_RETRY_POLICIES[errorCode].requiresTemplateActive
            /\ ~isTemplateActive(campaignId)
    THEN [shouldRetry |-> FALSE, nextAttemptAt |-> Undefined, reason |-> "blocked"]
    ELSE LET r == calculateNextRetryAttempt(errorCode, currentAttempt(retryState),
                                            lastAttemptAt(retryState, clock),
                                            retryConfig.ttlDateTime, clock)
         IN  [shouldRetry |-> r.shouldRetry, nextAttemptAt |-> r.nextAttemptAt,
              reason |-> IF r.shouldRetry THEN "scheduled" ELSE "exhausted"]

processRetryAttempt(campaignId, errorCode, retryState, clock) ==
    LET retryConfig == retryState.retryConfig IN
    IF ~retryConfig.enabled
    THEN [shouldRetry |-> FALSE, nextAttemptAt |-> Undefined, reason |-> "disabled"]
    ELSE IF retryConfig.ttlDateTime = Undefined
            \/ isRetryTtlExpired(retryConfig.ttlDateTime, clock)
    THEN [shouldRetry |-> FALSE, nextAttemptAt |-> Undefined, reason |-> "expired"]
    ELSE IF errorCode \notin DOMAIN DEFAULT_RETRY_POLICIES
    THEN [shouldRetry |-> FALSE, nextAttemptAt |-> Undefined, reason |-> "no policy"]
    ELSE IF errorCode = "132015"
            /\ DEFAULT_RETRY_POLICIES[errorCode].requiresTemplateActive
            /\ ~isTemplateActive(campaignId)
    THEN [shouldRetry |-> FALSE, nextAttemptAt |-> Undefined, reason |-> "blocked"]
    ELSE LET r == calculateNextRetryAttempt(errorCode, currentAttempt(retryState),
                                            lastAttemptAt(retryState, clock),
                                            retryConfig.ttlDateTime, clock)
         IN  [shouldRetry |-> r.shouldRetry, nextAttemptAt |-> r.nextAttemptAt,
              reason |-> IF r.shouldRetry THEN "scheduled" ELSE "exhausted"]

\* createRetryState that schedules a first attempt for the present hour.
createRetryState_SchedulesNow(campaignId, retryConfig, clock) ==
    [retryConfig |-> retryConfig,
     attempts |-> << >>,
     lastAttemptAt |-> Undefined,
     nextAttemptAt |-> clock,
     isExpired |-> IF retryConfig.ttlDateTime # Undefined
                   THEN isRetryTtlExpired(retryConfig.ttlDateTime, clock) ELSE FALSE]

createRetryState(campaignId, retryConfig, clock) ==
    [retryConfig |-> retryConfig,
     attempts |-> << >>,
     lastAttemptAt |-> Undefined,
     nextAttemptAt |-> Undefined,
     isExpired |-> IF retryConfig.ttlDateTime # Undefined
                   THEN isRetryTtlExpired(retryConfig.ttlDateTime, clock) ELSE FALSE]

updateRetryState(retryState, attempt, clock) ==
    [retryState EXCEPT
        !.attempts = Append(retryState.attempts, attempt),
        !.lastAttemptAt = IF attempt.executedAt # Undefined
                          THEN attempt.executedAt ELSE clock,
        !.isExpired = IF retryState.retryConfig.ttlDateTime # Undefined
                      THEN isRetryTtlExpired(retryState.retryConfig.ttlDateTime, clock)
                      ELSE FALSE]

\* getRetryStats.  timeToExpiry is the set of the values the field has: empty
\* when the field is undefined; it is counted in hours as every time is.
getRetryStats(retryState, clock) ==
    LET attempts == retryState.attempts
        Count(status) == Cardinality({i \in 1..Len(attempts) : attempts[i].status = status})
    IN  [totalAttempts |-> Len(attempts),
         successfulAttempts |-> Count("completed"),
         failedAttempts |-> Count("failed"),
         pendingAttempts |-> Count("pending"),
         isExpired |-> retryState.isExpired,
         timeToExpiry |-> IF retryState.retryConfig.ttlDateTime # Undefined
                             /\ ~retryState.isExpired
                          THEN {retryState.retryConfig.ttlDateTime - clock}
                          ELSE {}]

\* new Date(s) of a string that is no date: getTime() is NaN.
InvalidDate == 0 - 2

\* setDate(getDate() + n) moves a date by n days of 24 hours (no change of
\* the local clock in between).
HoursPerDay == 24
MinTtlDays == 1
MaxTtlDays == 28

InvalidDateErrors(ttlDateTime, scheduledDateTime) ==
    (IF ttlDateTime = InvalidDate THEN <<"Invalid TTL datetime">> ELSE << >>)
        \o (IF scheduledDateTime = InvalidDate
            THEN <<"Invalid scheduled datetime">> ELSE << >>)

\* validateUnifiedTtl with ttl <= minTtl in place of ttl < minTtl.
validateUnifiedTtl_ExclusiveMinimum(ttlDateTime, scheduledDateTime, clock) ==
    LET invalid == InvalidDateErrors(ttlDateTime, scheduledDateTime)
        minTtl == scheduledDateTime + MinTtlDays * HoursPerDay
        maxTtl == scheduledDateTime + MaxTtlDays * HoursPerDay
        errors ==
            (IF ttlDateTime <= minTtl
             THEN <<"TTL must be at least 24 hours after scheduled time">> ELSE << >>)
            \o (IF ttlDateTime > maxTtl
                THEN <<"TTL cannot be more than 28 days after scheduled time">>
                ELSE << >>)
            \o (IF ttlDateTime <= clock
                THEN <<"TTL must be in the future">> ELSE << >>)
    IN  IF Len(invalid) > 0
        THEN [isValid |-> FALSE, errors |-> invalid]
        ELSE [isValid |-> Len(errors) = 0, errors |-> errors]

validateUnifiedTtl(ttlDateTime, scheduledDateTime, clock) ==
    LET invalid == InvalidDateErrors(ttlDateTime, scheduledDateTime)
        minTtl == scheduledDateTime + MinTtlDays * HoursPerDay
        maxTtl == scheduledDateTime + MaxTtlDays * HoursPerDay
        errors ==
            (IF ttlDateTime < minTtl
             THEN <<"TTL must be at least 24 hours after scheduled time">> ELSE << >>)
            \o (IF ttlDateTime > maxTtl
                THEN <<"TTL cannot be more than 28 days after scheduled time">>
                ELSE << >>)
            \o (IF ttlDateTime <= clock
                THEN <<"TTL must be in the future">> ELSE << >>)
    IN  IF Len(invalid) > 0
        THEN [isValid |-> FALSE, errors |-> invalid]
        ELSE [isValid |-> Len(errors) = 0, errors |-> errors]

createUnifiedTtlConfig(campaignId, scheduledAt, retryTtl, clock) ==
    LET validation == validateUnifiedTtl(retryTtl, scheduledAt, clock) IN
    IF ~validation.isValid
    THEN [retryEngineConfig |-> [enabled |-> FALSE, ttlDateTime |-> Undefined,
                                 scheduledDateTime |-> scheduledAt],
          metaApiTtl |-> retryTtl,
          isValid |-> FALSE,
          errors |-> validation.errors]
    ELSE [retryEngineConfig |-> [enabled |-> TRUE, ttlDateTime |-> retryTtl,
                                 scheduledDateTime |-> scheduledAt],
          metaApiTtl |-> retryTtl,
          isValid |-> TRUE,
          errors |-> << >>]

\* ----------------------------------------------------------- CampaignService

\* setRetryConfig that keeps the isExpired of an existing state.
setRetryConfig_KeepsIsExpired(m, campaignId, retryConfig, clock) ==
    IF MapHas(m, campaignId)
    THEN MapSet(m, campaignId,
                [MapGet(m, campaignId) EXCEPT !.retryConfig = retryConfig])
    ELSE MapSet(m, campaignId, createRetryState(campaignId, retryConfig, clock))

\* setRetryConfig that stores a fresh state whether or not one exists.
setRetryConfig_Recreates(m, campaignId, retryConfig, clock) ==
    MapSet(m, campaignId, createRetryState(campaignId, retryConfig, clock))

\* setRetryConfig, as the Map it leaves.
setRetryConfig(m, campaignId, retryConfig, clock) ==
    IF MapHas(m, campaignId)
    THEN MapSet(m, campaignId,
                [MapGet(m, campaignId) EXCEPT
                    !.retryConfig = retryConfig,
                    !.isExpired = IF retryConfig.ttlDateTime # Undefined
                                  THEN isRetryTtlExpired(retryConfig.ttlDateTime, clock)
                                  ELSE FALSE])
    ELSE MapSet(m, campaignId, createRetryState(campaignId, retryConfig, clock))

\* Mutant of SkippedByScan: the scan trusts the stored isExpired flag and does
\* not compare the deadline with the clock.
SkippedByScan_FlagOnly(retryState, clock) ==
    \/ ~retryState.retryConfig.enabled
    \/ retryState.isExpired

\* SkippedByScan without the test of retryConfig.enabled.
SkippedByScan_IgnoresEnabled(retryState, clock) ==
    \/ retryState.isExpired
    \/ /\ retryState.retryConfig.ttlDateTime # Undefined
       /\ isRetryTtlExpired(retryState.retryConfig.ttlDateTime, clock)

\* The entry is skipped by the first two tests of the scan.
SkippedByScan(retryState, clock) ==
    \/ ~retryState.retryConfig.enabled
    \/ retryState.isExpired
    \/ /\ retryState.retryConfig.ttlDateTime # Undefined
       /\ isRetryTtlExpired(retryState.retryConfig.ttlDateTime, clock)

\* DueEntry without the test of nextAttemptAt.
DueEntry_AnyTime(retryState, clock) == ~SkippedByScan(retryState, clock)

\* DueEntry with now > nextAttempt in place of now >= nextAttempt.
DueEntry_StrictlyAfter(retryState, clock) ==
    /\ ~SkippedByScan(retryState, clock)
    /\ retryState.nextAttemptAt # Undefined
    /\ clock > retryState.nextAttemptAt

\* The entry is pushed on campaignsForRetry.
DueEntry(retryState, clock) ==
    /\ ~SkippedByScan(retryState, clock)
    /\ retryState.nextAttemptAt # Undefined
    /\ clock >= retryState.nextAttemptAt

\* The entry gets isExpired = true written in place by the scan.
MarkedByScan(retryState, clock) ==
    /\ retryState.retryConfig.enabled
    /\ ~retryState.isExpired
    /\ retryState.retryConfig.ttlDateTime # Undefined
    /\ isRetryTtlExpired(retryState.retryConfig.ttlDateTime, clock)

\* getCampaignsForRetry: the list it returns ...
getCampaignsForRetry(m, clock) ==
    SelectSeq(m, LAMBDA e : DueEntry(e.retryState, clock))

\* ... and the Map it leaves.
ScanMap(m, clock) ==
    [i \in 1..Len(m) |->
        IF MarkedByScan(m[i].retryState, clock)
        THEN [m[i] EXCEPT !.retryState.isExpired = TRUE]
        ELSE m[i]]

isRetryActive(m, campaignId, clock) ==
    IF ~MapHas(m, campaignId) THEN FALSE
    ELSE LET retryState == MapGet(m, campaignId) IN
         IF ~retryState.retryConfig.enabled THEN FALSE
         ELSE IF retryState.retryConfig.ttlDateTime = Undefined THEN FALSE
         ELSE ~isRetryTtlExpired(retryState.retryConfig.ttlDateTime, clock)

\* getRetryStatistics, as a function of the campaign ids of the Map.
getRetryStatistics(m, clock) ==
    [campaignId \in MapKeys(m) |-> getRetryStats(MapGet(m, campaignId), clock)]

updateRetryAttempt(m, campaignId, attempt, clock) ==
    IF MapHas(m, campaignId)
    THEN MapSet(m, campaignId, updateRetryState(MapGet(m, campaignId), attempt, clock))
    ELSE m

\* --------------------------------------------------------------- RetryEngine

\* A processRetries execution in progress: who started it, the campaigns of its
\* batch, and the executeCampaignRetry calls that still await the executor.  Each
\* call holds the retryState object the scan returned; live says that this
\* object is still the one the Map holds for the campaign.
NoTick == [source |-> "none", batch |-> << >>, executions |-> {}]

FreeSlots == {i \in 1..MaxTicks : ticks[i] = NoTick}

InFlight == UNION {ticks[i].executions : i \in 1..MaxTicks}

TicksInProgress == {i \in 1..MaxTicks : ticks[i] # NoTick}

\* The number of executeCampaignRetry calls awaiting the executor.
RECURSIVE CountExecutions(_, _)
CountExecutions(t, i) ==
    IF i = 0 THEN 0 ELSE Cardinality(t[i].executions) + CountExecutions(t, i - 1)

InFlightCount == CountExecutions(ticks, MaxTicks)

\* The number of attempts the Map holds, over all campaigns.
RECURSIVE SumAttempts(_)
SumAttempts(m) ==
    IF m = << >> THEN 0 ELSE Len(Head(m).retryState.attempts) + SumAttempts(Tail(m))

Recorded == SumAttempts(campaignRetryStates)

\* What the executor (simulateCampaignExecution) can answer.
ExecutionResults ==
    {[success |-> TRUE, errorCode |-> NoError]}
        \cup {[success |-> FALSE, errorCode |-> code] : code \in RetryErrorCode}

\* The configurations callers of setRetryConfig pass.
RetryConfigs ==
    [enabled : {TRUE}, ttlDateTime : TtlValues \cup {Undefined},
     scheduledDateTime : {Undefined}]
        \cup [enabled : {FALSE}, ttlDateTime : {Undefined},
              scheduledDateTime : {Undefined}]

\* The Map replaced the object of campaignId by a copy: the objects held by
\* calls in flight are no longer the Map's.
Detach(t, campaignId) ==
    [i \in 1..MaxTicks |->
        [t[i] EXCEPT !.executions =
            {IF e.campaignId = campaignId THEN [e EXCEPT !.live = FALSE] ELSE e
                : e \in t[i].executions}]]

\* The scan wrote isExpired in place: calls holding the Map's object see it.
ScanHeld(t, clock) ==
    [i \in 1..MaxTicks |->
        [t[i] EXCEPT !.executions =
            {IF e.live /\ MarkedByScan(e.retryState, clock)
             THEN [e EXCEPT !.retryState.isExpired = TRUE] ELSE e
                : e \in t[i].executions}]]

\* nextAttemptAt was written in place on the Map's object of campaignId.
WriteHeld(t, campaignId, nextAttemptAt) ==
    [i \in 1..MaxTicks |->
        [t[i] EXCEPT !.executions =
            {IF e.live /\ e.campaignId = campaignId
             THEN [e EXCEPT !.retryState.nextAttemptAt = nextAttemptAt] ELSE e
                : e \in t[i].executions}]]

Min(a, b) == IF a <= b THEN a ELSE b

\* Mutant of Batch: the list of due campaigns is dispatched whole.
Batch_NoLimit(campaignsForRetry) == campaignsForRetry

\* The batch processRetries dispatches from the list of due campaigns.
Batch(campaignsForRetry) ==
    SubSeq(campaignsForRetry, 1,
           Min(Len(campaignsForRetry), config.maxConcurrentRetries))

\* processRetries up to its await: scan, truncate, start one
\* executeCampaignRetry per campaign of the batch.
processRetries(source) ==
    LET campaignsForRetry == getCampaignsForRetry(campaignRetryStates, now)
        batch == Batch(campaignsForRetry)
        held == ScanHeld(ticks, now)
    IN
    /\ campaignRetryStates' = ScanMap(campaignRetryStates, now)
    /\ IF Len(campaignsForRetry) = 0
       THEN ticks' = held
       ELSE /\ FreeSlots # {}
            /\ Recorded + InFlightCount + Len(batch) <= MaxAttempts
            /\ LET slot == CHOOSE i \in FreeSlots : \A j \in FreeSlots : i <= j IN
               ticks' = [held EXCEPT ![slot] =
                   [source |-> source,
                    batch |-> [i \in 1..Len(batch) |-> batch[i].campaignId],
                    executions |->
                        {[campaignId |-> batch[i].campaignId,
                          retryState |-> batch[i].retryState,
                          live |-> TRUE] : i \in 1..Len(batch)}]]
    /\ UNCHANGED <<now, isRunning, retryInterval, timers, config, templateActive,
                   blocked, campaignsTable, lastCall>>

\* The RetryAttempt executeCampaignRetry builds once the executor answered:
\* it is numbered from the retryState object the call was started with.
AttemptOf(e, executionResult, clock) ==
    [attemptNumber |-> Len(e.retryState.attempts) + 1,
     scheduledAt |-> clock,
     executedAt |-> clock,
     status |-> IF executionResult.success THEN "completed" ELSE "failed",
     errorCode |-> executionResult.errorCode]

\* The argument executeCampaignRetry hands to processRetryAttempt.
DecisionState(e, m) == e.retryState

retryDecision(e, executionResult, m, clock) ==
    processRetryAttempt(e.campaignId, executionResult.errorCode,
                        DecisionState(e, m), clock)

\* executeCampaignRetry from the executor's answer to its return, as the Map it
\* leaves: the attempt is recorded, then on a failure the next attempt decided
\* and, when there is one, written on the object the Map now holds.
executeCampaignRetry(m, e, executionResult, clock) ==
    LET recorded == updateRetryAttempt(m, e.campaignId,
                                       AttemptOf(e, executionResult, clock), clock)
        decision == retryDecision(e, executionResult, recorded, clock)
    IN
    IF executionResult.success THEN recorded
    ELSE IF executionResult.errorCode = NoError THEN recorded
    ELSE IF decision.shouldRetry /\ decision.nextAttemptAt # Undefined
            /\ MapHas(recorded, e.campaignId)
    THEN MapSet(recorded, e.campaignId,
                [MapGet(recorded, e.campaignId) EXCEPT
                    !.nextAttemptAt = decision.nextAttemptAt])
    ELSE recorded

MaxRetryConfigDays == 7

\* validateRetryConfig with ttl >= maxTtl in place of ttl > maxTtl.
validateRetryConfig_ExclusiveMaximum(ttlDateTime, scheduledDateTime, clock) ==
    LET invalid == InvalidDateErrors(ttlDateTime, scheduledDateTime)
        maxTtl == scheduledDateTime + MaxRetryConfigDays * HoursPerDay
        errors ==
            (IF ttlDateTime <= scheduledDateTime
             THEN <<"TTL must be after scheduled time">> ELSE << >>)
            \o (IF ttlDateTime >= maxTtl
                THEN <<"TTL cannot be more than 7 days after scheduled time">>
                ELSE << >>)
            \o (IF ttlDateTime <= clock
                THEN <<"TTL must be in the future">> ELSE << >>)
    IN  IF Len(invalid) > 0
        THEN [isValid |-> FALSE, errors |-> invalid]
        ELSE [isValid |-> Len(errors) = 0, errors |-> errors]

validateRetryConfig(ttlDateTime, scheduledDateTime, clock) ==
    LET invalid == InvalidDateErrors(ttlDateTime, scheduledDateTime)
        maxTtl == scheduledDateTime + MaxRetryConfigDays * HoursPerDay
        errors ==
            (IF ttlDateTime <= scheduledDateTime
             THEN <<"TTL must be after scheduled time">> ELSE << >>)
            \o (IF ttlDateTime > maxTtl
                THEN <<"TTL cannot be more than 7 days after scheduled time">>
                ELSE << >>)
            \o (IF ttlDateTime <= clock
                THEN <<"TTL must be in the future">> ELSE << >>)
    IN  IF Len(invalid) > 0
        THEN [isValid |-> FALSE, errors |-> invalid]
        ELSE [isValid |-> Len(errors) = 0, errors |-> errors]

\* ------------------------------------------------- SupabaseCampaignService

\* What callers of updateUnifiedRetryTtl pass: the deadline, and the scheduled
\* time or nothing.
PersistedTtlValues == {0, 192}
ScheduledAtValues == {0, Undefined}

\* ------------------------------------------------------------------ actions

\* The table before any retry TTL is stored, and no direct call made yet.
NoRows == [campaignId \in Campaigns |-> [retry_ttl |-> Undefined, scheduled_at |-> Undefined]]
NoCall == [op |-> "none"]

Init ==
    /\ now = 0
    /\ campaignRetryStates = << >>
    /\ isRunning = FALSE
    /\ retryInterval = FALSE
    /\ timers = 0
    /\ ticks = [i \in 1..MaxTicks |-> NoTick]
    /\ config = [maxConcurrentRetries |-> maxConcurrentRetries]
    /\ templateActive = TRUE
    /\ blocked = {}
    /\ campaignsTable = NoRows
    /\ lastCall = NoCall

AdvanceClock ==
    /\ \E d \in ClockSteps : now + d <= MaxTime /\ now' = now + d
    /\ UNCHANGED <<campaignRetryStates, isRunning, retryInterval, timers, ticks,
                   config, templateActive, blocked, campaignsTable, lastCall>>

SetRetryConfig ==
    \E campaignId \in Campaigns, retryConfig \in RetryConfigs :
        /\ campaignRetryStates' =
               setRetryConfig(campaignRetryStates, campaignId, retryConfig, now)
        /\ ticks' = Detach(ticks, campaignId)
        /\ UNCHANGED <<now, isRunning, retryInterval, timers, config,
                       templateActive, blocked, campaignsTable, lastCall>>

\* A caller schedules the first attempt of a configured campaign: it writes
\* nextAttemptAt on the object getRetryState returns, as the engine does for the
\* later ones.  createRetryState leaves nextAttemptAt unset and no operation of
\* the services sets it for a campaign that is not already due, so this write
\* is the only way a campaign enters the due list.  The caller keeps the
\* schedule within the window: the campaign is enabled and the deadline not
\* passed.
ScheduleFirstAttempt ==
    \E campaignId \in MapKeys(campaignRetryStates) :
        LET retryState == MapGet(campaignRetryStates, campaignId) IN
        /\ retryState.nextAttemptAt = Undefined
        /\ retryState.retryConfig.enabled
        /\ retryState.retryConfig.ttlDateTime # Undefined
        /\ now <= retryState.retryConfig.ttlDateTime
        /\ campaignRetryStates' =
               MapSet(campaignRetryStates, campaignId,
                      [retryState EXCEPT !.nextAttemptAt = now])
        /\ ticks' = WriteHeld(ticks, campaignId, now)
        /\ UNCHANGED <<now, isRunning, retryInterval, timers, config,
                       templateActive, blocked, campaignsTable, lastCall>>

\* start() without the test of isRunning.
Start_Unguarded ==
    /\ isRunning' = TRUE
    /\ retryInterval' = TRUE
    /\ timers' = timers + 1
    /\ UNCHANGED <<now, campaignRetryStates, ticks, config, templateActive, blocked,
                   campaignsTable, lastCall>>

Start ==
    /\ IF isRunning
       THEN UNCHANGED <<isRunning, retryInterval, timers>>
       ELSE /\ isRunning' = TRUE
            /\ retryInterval' = TRUE
            /\ timers' = timers + 1
    /\ UNCHANGED <<now, campaignRetryStates, ticks, config, templateActive, blocked,
                   campaignsTable, lastCall>>

\* stop() that drops its handle without clearInterval.
Stop_KeepsTimer ==
    /\ IF ~isRunning
       THEN UNCHANGED <<isRunning, retryInterval, timers>>
       ELSE /\ isRunning' = FALSE
            /\ retryInterval' = FALSE
            /\ timers' = timers
    /\ UNCHANGED <<now, campaignRetryStates, ticks, config, templateActive, blocked,
                   campaignsTable, lastCall>>

Stop ==
    /\ IF ~isRunning
       THEN UNCHANGED <<isRunning, retryInterval, timers>>
       ELSE /\ isRunning' = FALSE
            /\ retryInterval' = FALSE
            /\ timers' = IF retryInterval THEN timers - 1 ELSE timers
    /\ UNCHANGED <<now, campaignRetryStates, ticks, config, templateActive, blocked,
                   campaignsTable, lastCall>>

\* The interval timer fires: its callback calls processRetries.
TimerFire ==
    /\ timers > 0
    /\ processRetries("timer")

\* triggerRetryProcessing without the test of isRunning.
TriggerRetryProcessing_Unguarded == processRetries("manual")

TriggerRetryProcessing ==
    IF ~isRunning
    THEN UNCHANGED vars
    ELSE processRetries("manual")

\* Complete where a failed call ends the whole batch: the calls of the other
\* campaigns are dropped.
Complete_AbortsBatch(slot, e, executionResult) ==
    /\ e \in ticks[slot].executions
    /\ campaignRetryStates' =
           executeCampaignRetry(campaignRetryStates, e, executionResult, now)
    /\ LET detached == Detach(ticks, e.campaignId)
           left == detached[slot].executions \ {[e EXCEPT !.live = FALSE]}
       IN  ticks' = [detached EXCEPT
                        ![slot] = IF left = {} \/ ~executionResult.success THEN NoTick
                                  ELSE [detached[slot] EXCEPT !.executions = left]]
    /\ blocked' =
           IF /\ ~executionResult.success
              /\ executionResult.errorCode # NoError
              /\ retryDecision(e, executionResult, campaignRetryStates, now).reason
                     = "blocked"
           THEN blocked \cup {e.campaignId}
           ELSE blocked \ {e.campaignId}
    /\ UNCHANGED <<now, isRunning, retryInterval, timers, config, templateActive,
                   campaignsTable, lastCall>>

\* The executor answers one call in flight; the call runs to its end, and
\* with the last call of a batch the processRetries execution ends.
Complete(slot, e, executionResult) ==
    /\ e \in ticks[slot].executions
    /\ campaignRetryStates' =
           executeCampaignRetry(campaignRetryStates, e, executionResult, now)
    /\ LET detached == Detach(ticks, e.campaignId)
           left == detached[slot].executions \ {[e EXCEPT !.live = FALSE]}
       IN  ticks' = [detached EXCEPT
                        ![slot] = IF left = {} THEN NoTick
                                  ELSE [detached[slot] EXCEPT !.executions = left]]
    /\ blocked' =
           IF /\ ~executionResult.success
              /\ executionResult.errorCode # NoError
              /\ retryDecision(e, executionResult, campaignRetryStates, now).reason
                     = "blocked"
           THEN blocked \cup {e.campaignId}
           ELSE blocked \ {e.campaignId}
    /\ UNCHANGED <<now, isRunning, retryInterval, timers, config, templateActive,
                   campaignsTable, lastCall>>

CompleteExecution ==
    \E slot \in 1..MaxTicks :
        \E e \in ticks[slot].executions, executionResult \in ExecutionResults :
            Complete(slot, e, executionResult)

Next ==
    \/ AdvanceClock
    \/ SetRetryConfig
    \/ ScheduleFirstAttempt
    \/ Start
    \/ Stop
    \/ TimerFire
    \/ TriggerRetryProcessing
    \/ CompleteExecution

Spec == Init /\ [][Next]_vars

\* updateUnifiedRetryTtl: the row is written first; only then the window is
\* validated, and the Map is updated when it is valid (the call throws when
\* the update of the row fails, and after the row is written when the window is
\* invalid).
UpdateUnifiedRetryTtl ==
    \E campaignId \in Campaigns, retryTtl \in PersistedTtlValues,
       scheduledAt \in ScheduledAtValues, error \in BOOLEAN :
        IF error
        THEN UNCHANGED vars
        ELSE LET unifiedConfig ==
                     createUnifiedTtlConfig(
                         campaignId,
                         IF scheduledAt # Undefined THEN scheduledAt ELSE now,
                         retryTtl, now)
             IN
             /\ campaignsTable' =
                    [campaignsTable EXCEPT
                        ![campaignId] =
                            [retry_ttl |-> retryTtl,
                             scheduled_at |-> IF scheduledAt # Undefined
                                              THEN scheduledAt ELSE @.scheduled_at]]
             /\ IF unifiedConfig.isValid
                THEN /\ campaignRetryStates' =
                            setRetryConfig(campaignRetryStates, campaignId,
                                           unifiedConfig.retryEngineConfig, now)
                     /\ ticks' = Detach(ticks, campaignId)
                ELSE UNCHANGED <<campaignRetryStates, ticks>>
             /\ UNCHANGED <<now, isRunning, retryInterval, timers, config,
                            templateActive, blocked, lastCall>>

\* clearRetryTtl, for each set of campaign ids: the rows lose their retry_ttl.
ClearRetryTtl ==
    \E campaignIds \in SUBSET Campaigns, error \in BOOLEAN :
        /\ campaignsTable' =
               IF error THEN campaignsTable
               ELSE [campaignId \in Campaigns |->
                        IF campaignId \in campaignIds
                        THEN [campaignsTable[campaignId] EXCEPT !.retry_ttl = Undefined]
                        ELSE campaignsTable[campaignId]]
        /\ UNCHANGED <<now, campaignRetryStates, isRunning, retryInterval, timers,
                       ticks, config, templateActive, blocked, lastCall>>

\* The engine with its retry windows configured through the persistence
\* layer; its ticks are those of triggerRetryProcessing.
NextPersist ==
    \/ AdvanceClock
    \/ UpdateUnifiedRetryTtl
    \/ ClearRetryTtl
    \/ ScheduleFirstAttempt
    \/ Start
    \/ TriggerRetryProcessing
    \/ CompleteExecution

SpecPersist == Init /\ [][NextPersist]_vars

\* The template service, outside the repository, changes what it answers: a
\* template is paused or becomes active again.
SetTemplateActive ==
    /\ \E isActive \in BOOLEAN : templateActive' = isActive
    /\ UNCHANGED <<now, campaignRetryStates, isRunning, retryInterval, timers, ticks,
                   config, blocked, campaignsTable, lastCall>>

\* The engine next to a template service that may report a template paused.
NextOracle ==
    \/ Next
    \/ SetTemplateActive

SpecOracle == Init /\ [][NextOracle]_vars

\* An engine constructed with room for one more execution per tick than the
\* engine of Spec.
InitBatch ==
    /\ now = 0
    /\ campaignRetryStates = << >>
    /\ isRunning = FALSE
    /\ retryInterval = FALSE
    /\ timers = 0
    /\ ticks = [i \in 1..MaxTicks |-> NoTick]
    /\ config = [maxConcurrentRetries |-> maxConcurrentRetries + 1]
    /\ templateActive = TRUE
    /\ blocked = {}
    /\ campaignsTable = NoRows
    /\ lastCall = NoCall

SpecBatch == InitBatch /\ [][Next]_vars

\* The arguments of the direct calls of the static functions: deadlines and
\* scheduled times around the bounds of the validators and around the clock,
\* attempt indexes up to past the longest policy, and retry states.
CallDeadlines ==
    {0, 1, 23, 24, 25, 36, 48, 49, 72, 168, 169, 192, 193, 672, 673, 696, 697,
     InvalidDate}
CallScheduledTimes == {0, 24, InvalidDate}
CallLastAttempts == {0, 24}
CallAttemptIndexes == 0..4
CallErrorCodes == RetryErrorCode \cup UnknownErrorCodes

FailedAttempt(i) ==
    [attemptNumber |-> i, scheduledAt |-> 0, executedAt |-> 0,
     status |-> "failed", errorCode |-> "131049"]

CallRetryStates ==
    {[retryConfig |-> [enabled |-> enabled, ttlDateTime |-> ttlDateTime,
                       scheduledDateTime |-> Undefined],
      attempts |-> [i \in 1..n |-> FailedAttempt(i)],
      lastAttemptAt |-> IF n = 0 THEN Undefined ELSE 0,
      nextAttemptAt |-> IF n = 0 THEN Undefined ELSE 0,
      isExpired |-> FALSE] :
        enabled \in BOOLEAN, ttlDateTime \in {Undefined, 23, 72}, n \in 0..3}

Called(op, args, result) ==
    /\ lastCall' = [op |-> op, args |-> args, clock |-> now,
                    templateActive |-> templateActive, result |-> result]
    /\ UNCHANGED <<now, campaignRetryStates, isRunning, retryInterval, timers, ticks,
                   config, templateActive, blocked, campaignsTable>>

CallIsRetryTtlExpired ==
    \E ttlDateTime \in CallDeadlines \ {InvalidDate} :
        Called("isRetryTtlExpired", <<ttlDateTime>>,
               [expired |-> isRetryTtlExpired(ttlDateTime, now)])

CallValidateUnifiedTtl ==
    \E ttlDateTime \in CallDeadlines, scheduledDateTime \in CallScheduledTimes :
        Called("validateUnifiedTtl", <<ttlDateTime, scheduledDateTime>>,
               validateUnifiedTtl(ttlDateTime, scheduledDateTime, now))

CallValidateRetryConfig ==
    \E ttlDateTime \in CallDeadlines, scheduledDateTime \in CallScheduledTimes :
        Called("validateRetryConfig", <<ttlDateTime, scheduledDateTime>>,
               validateRetryConfig(ttlDateTime, scheduledDateTime, now))

CallCalculateNextRetryAttempt ==
    \E errorCode \in CallErrorCodes, attemptIndex \in CallAttemptIndexes,
       lastAttempt \in CallLastAttempts,
       ttlDateTime \in CallDeadlines \ {InvalidDate} :
        Called("calculateNextRetryAttempt",
               <<errorCode, attemptIndex, lastAttempt, ttlDateTime>>,
               calculateNextRetryAttempt(errorCode, attemptIndex, lastAttempt,
                                         ttlDateTime, now))

CallProcessRetryAttempt ==
    \E campaignId \in Campaigns, errorCode \in CallErrorCodes,
       retryState \in CallRetryStates :
        Called("processRetryAttempt", <<campaignId, errorCode, retryState>>,
               processRetryAttempt(campaignId, errorCode, retryState, now))

\* Callers of the static functions, at any hour and whatever the template
\* service answers.
NextCalls ==
    \/ AdvanceClock
    \/ SetTemplateActive
    \/ CallIsRetryTtlExpired
    \/ CallValidateUnifiedTtl
    \/ CallValidateRetryConfig
    \/ CallCalculateNextRetryAttempt
    \/ CallProcessRetryAttempt

SpecCalls == Init /\ [][NextCalls]_vars

\* The attempts a caller of updateRetryAttempt passes for a campaign: the
\* next attempt number, executed now or without executedAt.
CallerAttempts(campaignId) ==
    LET n == IF MapHas(campaignRetryStates, campaignId)
             THEN Len(MapGet(campaignRetryStates, campaignId).attempts) ELSE 0
    IN  [attemptNumber : {n + 1}, scheduledAt : {now}, executedAt : {now, Undefined},
         status : {"completed", "failed"}, errorCode : {NoError, "131049"}]

\* A direct call of CampaignService.updateRetryAttempt.
UpdateRetryAttempt ==
    \E campaignId \in Campaigns :
        \E attempt \in CallerAttempts(campaignId) :
            /\ Recorded + InFlightCount < MaxAttempts
            /\ campaignRetryStates' =
                   updateRetryAttempt(campaignRetryStates, campaignId, attempt, now)
            /\ ticks' = Detach(ticks, campaignId)
            /\ UNCHANGED <<now, isRunning, retryInterval, timers, config,
                           templateActive, blocked, campaignsTable, lastCall>>

\* The operations of CampaignService and RetryEngine alone: no caller writes
\* on the objects getRetryState returns.
NextServices ==
    \/ AdvanceClock
    \/ SetRetryConfig
    \/ UpdateRetryAttempt
    \/ Start
    \/ Stop
    \/ TimerFire
    \/ TriggerRetryProcessing

SpecServices == Init /\ [][NextServices]_vars

\* ------------------------------------------------------------------- claims

StateOf(m, campaignId) == MapGet(m, campaignId)

\* The step appends one attempt to the attempts of campaignId.
Records(campaignId) ==
    /\ MapHas(campaignRetryStates, campaignId)
    /\ Len(StateOf(campaignRetryStates', campaignId).attempts)
           = Len(StateOf(campaignRetryStates, campaignId).attempts) + 1

LastAttempt(retryState) == retryState.attempts[Len(retryState.attempts)]

\* The step starts a processRetries execution in slot, with a batch.
Dispatches(slot) == ticks[slot] = NoTick /\ ticks'[slot] # NoTick

IsDue(m, campaignId, clock) ==
    \E i \in 1..Len(getCampaignsForRetry(m, clock)) :
        getCampaignsForRetry(m, clock)[i].campaignId = campaignId

\* C1: no two timer-fired processRetries executions of the engine are in
\* progress at once (a timer fire during a running tick is skipped).
C1_TimerTicksDoNotOverlap ==
    Cardinality({i \in TicksInProgress : ticks[i].source = "timer"}) <= 1

\* C2: right after a step records a completed attempt for a campaign, the
\* campaign is not in the list getCampaignsForRetry returns.
C2_CompletedLeavesDueSet ==
    [][\A campaignId \in Campaigns :
          (/\ Records(campaignId)
           /\ LastAttempt(StateOf(campaignRetryStates', campaignId)).status = "completed")
          => ~IsDue(campaignRetryStates', campaignId, now')]_vars

\* C3: when a call ends with a failed attempt and the decision shouldRetry =
\* FALSE, the campaign has no nextAttemptAt afterwards.
C3_ExhaustedHasNoNextAttempt ==
    [][\A slot \in 1..MaxTicks :
         \A e \in ticks[slot].executions, executionResult \in ExecutionResults :
            (/\ Complete(slot, e, executionResult)
             /\ ~executionResult.success
             /\ ~retryDecision(e, executionResult, campaignRetryStates', now).shouldRetry)
            => StateOf(campaignRetryStates', e.campaignId).nextAttemptAt = Undefined]_vars

\* C4: a processRetries execution that starts after the deadline of a campaign
\* dispatches no attempt for that campaign.
C4_NoDispatchAfterDeadline ==
    [][\A slot \in 1..MaxTicks :
          Dispatches(slot) =>
              \A e \in ticks'[slot].executions :
                  LET ttl == StateOf(campaignRetryStates, e.campaignId)
                                 .retryConfig.ttlDateTime
                  IN  ttl # Undefined => ~(now > ttl)]_vars

\* C4 witness: at hour 24 a tick dispatched the second campaign of the Map and
\* passed over the first, which is enabled, scheduled, and past its deadline.
C4_Witness ==
    /\ Len(campaignRetryStates) = 2
    /\ LET first == campaignRetryStates[1].retryState
           second == campaignRetryStates[2].campaignId
       IN  /\ first.retryConfig.enabled
           /\ first.retryConfig.ttlDateTime # Undefined
           /\ now > first.retryConfig.ttlDateTime
           /\ first.nextAttemptAt # Undefined
           /\ first.nextAttemptAt <= now
           /\ first.attempts = << >>
           /\ \A e \in InFlight : e.campaignId = second
           /\ \E e \in InFlight : e.live /\ e.retryState.nextAttemptAt = now
           /\ now > 0

\* C5: in the Map, a nextAttemptAt that is set is never later than the deadline.
C5_NextAttemptWithinDeadline ==
    \A i \in 1..Len(campaignRetryStates) :
        LET retryState == campaignRetryStates[i].retryState IN
        (retryState.nextAttemptAt # Undefined
            /\ retryState.retryConfig.ttlDateTime # Undefined)
        => retryState.nextAttemptAt <= retryState.retryConfig.ttlDateTime

\* C6: a processRetries execution dispatches exactly the first
\* min(n, maxConcurrentRetries) of the n due campaigns; the others get no
\* attempt from it and are still due after it.
C6_BatchIsFirstK ==
    [][\A slot \in 1..MaxTicks :
          Dispatches(slot) =>
              LET due == getCampaignsForRetry(campaignRetryStates, now)
                  n == Len(due)
                  k == IF n <= config.maxConcurrentRetries
                       THEN n ELSE config.maxConcurrentRetries
              IN  /\ Cardinality(ticks'[slot].executions) = k
                  /\ {e.campaignId : e \in ticks'[slot].executions}
                         = {due[i].campaignId : i \in 1..k}
                  /\ \A i \in (k + 1)..n :
                         IsDue(campaignRetryStates', due[i].campaignId, now')]_vars

\* C6 witness: more campaigns are due than maxConcurrentRetries, a tick holds
\* the first of them in its batch, and the last is in no batch.
C6_Witness ==
    LET due == getCampaignsForRetry(campaignRetryStates, now) IN
    /\ Len(due) > config.maxConcurrentRetries
    /\ Cardinality(TicksInProgress) = 1
    /\ InFlightCount = config.maxConcurrentRetries
    /\ \E e \in InFlight : e.live /\ e.campaignId = due[1].campaignId
    /\ \A e \in InFlight : e.campaignId # due[Len(due)].campaignId

\* C7: at most maxConcurrentRetries executions are in flight.
C7_InFlightWithinLimit == InFlightCount <= config.maxConcurrentRetries

\* C8: the i-th stored attempt of every campaign has attemptNumber i.
C8_AttemptNumbersConsecutive ==
    \A i \in 1..Len(campaignRetryStates) :
        LET attempts == campaignRetryStates[i].retryState.attempts IN
        \A j \in 1..Len(attempts) : attempts[j].attemptNumber = j

\* C9: when a campaign whose attempts so far all failed with 130472, 24 hours
\* apart, fails again with 130472 under an unchanged enabled window whose
\* deadline is at least 72 hours after the first attempt, its nextAttemptAt
\* becomes the hour of this attempt plus 24.
C9_Fixed24hSchedule ==
    [][\A slot \in 1..MaxTicks :
         \A e \in ticks[slot].executions :
            LET before == StateOf(campaignRetryStates, e.campaignId)
                after == StateOf(campaignRetryStates', e.campaignId)
            IN
            (/\ Complete(slot, e, [success |-> FALSE, errorCode |-> "130472"])
             /\ before.retryConfig = e.retryState.retryConfig
             /\ before.retryConfig.enabled
             /\ before.retryConfig.ttlDateTime # Undefined
             /\ Len(after.attempts) <= 3
             /\ \A j \in 1..Len(after.attempts) :
                    /\ after.attempts[j].status = "failed"
                    /\ after.attempts[j].errorCode = "130472"
                    /\ after.attempts[j].executedAt
                           = after.attempts[1].executedAt + 24 * (j - 1)
             /\ before.retryConfig.ttlDateTime >= after.attempts[1].executedAt + 72)
            => after.nextAttemptAt = now + 24]_vars

\* C10: the decision after a failed attempt is computed from the state the Map
\* holds once the attempt is recorded: attempt index = stored attempts.length,
\* lastAttemptAt = executedAt of the attempt just recorded.
C10_DecisionUsesStoredState ==
    [][\A slot \in 1..MaxTicks :
         \A e \in ticks[slot].executions, executionResult \in ExecutionResults :
            (Complete(slot, e, executionResult) /\ ~executionResult.success)
            => LET stored == StateOf(campaignRetryStates', e.campaignId)
                   passed == DecisionState(e, campaignRetryStates')
               IN  /\ currentAttempt(passed) = Len(stored.attempts)
                   /\ lastAttemptAt(passed, now) = LastAttempt(stored).executedAt]_vars

\* The result simulateCampaignExecution gives for a paused template.
TemplatePaused == [success |-> FALSE, errorCode |-> "132015"]

C13_UnknownCodeNeverRetries ==
    \A errorCode \in UnknownErrorCodes :
        /\ \A i \in 1..Len(campaignRetryStates) :
               LET r == processRetryAttempt(campaignRetryStates[i].campaignId, errorCode,
                                            campaignRetryStates[i].retryState, now)
               IN  ~r.shouldRetry /\ r.nextAttemptAt = Undefined
        /\ \A e \in InFlight :
               LET r == processRetryAttempt(e.campaignId, errorCode, e.retryState, now)
               IN  ~r.shouldRetry /\ r.nextAttemptAt = Undefined

\* C13 witness: a retry state with a recorded failure for which a code of the
\* table is retried and a code the table lacks is not.
C13_Witness ==
    \E i \in 1..Len(campaignRetryStates) :
        LET c == campaignRetryStates[i].campaignId
            retryState == campaignRetryStates[i].retryState
        IN  /\ Len(retryState.attempts) = 1
            /\ LastAttempt(retryState).status = "failed"
            /\ processRetryAttempt(c, "131049", retryState, now).shouldRetry
            /\ \A errorCode \in UnknownErrorCodes :
                   processRetryAttempt(c, errorCode, retryState, now).reason = "no policy"

\* C14: no entry getCampaignsForRetry returns has isExpired TRUE or
\* retryConfig.enabled FALSE.
C14_DueSetExcludesExpiredAndDisabled ==
    LET due == getCampaignsForRetry(campaignRetryStates, now) IN
    \A i \in 1..Len(due) :
        /\ ~due[i].retryState.isExpired
        /\ due[i].retryState.retryConfig.enabled

\* C14 witness: getCampaignsForRetry returns a campaign while the Map also holds
\* a campaign whose nextAttemptAt has come and that is disabled or marked
\* expired.
C14_Witness ==
    /\ Len(getCampaignsForRetry(campaignRetryStates, now)) >= 1
    /\ \E i \in 1..Len(campaignRetryStates) :
           LET retryState == campaignRetryStates[i].retryState IN
           /\ retryState.nextAttemptAt # Undefined
           /\ now >= retryState.nextAttemptAt
           /\ ~retryState.retryConfig.enabled \/ retryState.isExpired

\* C15: getCampaignsForRetry returns a campaign of the Map exactly when its
\* retryConfig.enabled is TRUE, the clock is not past its deadline, and its
\* nextAttemptAt is set and not after the clock.
C15_DueSetCharacterisation ==
    \A i \in 1..Len(campaignRetryStates) :
        LET retryState == campaignRetryStates[i].retryState
            ttlDateTime == retryState.retryConfig.ttlDateTime
        IN  IsDue(campaignRetryStates, campaignRetryStates[i].campaignId, now)
            <=> /\ retryState.retryConfig.enabled
                /\ ttlDateTime = Undefined \/ ~(now > ttlDateTime)
                /\ retryState.nextAttemptAt # Undefined
                /\ retryState.nextAttemptAt <= now

\* C15 witness: of two campaigns whose nextAttemptAt has come, the one whose
\* deadline and nextAttemptAt are the present hour is returned and the
\* disabled one is not.
C15_Witness ==
    /\ Len(campaignRetryStates) = 2
    /\ \E i, j \in 1..2 :
           LET a == campaignRetryStates[i].retryState
               b == campaignRetryStates[j].retryState
           IN  /\ a.nextAttemptAt = now
               /\ a.retryConfig.ttlDateTime = now
               /\ IsDue(campaignRetryStates, campaignRetryStates[i].campaignId, now)
               /\ ~b.retryConfig.enabled
               /\ b.nextAttemptAt # Undefined
               /\ b.nextAttemptAt <= now
               /\ ~IsDue(campaignRetryStates, campaignRetryStates[j].campaignId, now)

IsPrefix(s, t) == Len(s) <= Len(t) /\ SubSeq(t, 1, Len(s)) = s

\* C16: no step removes the state of a campaign from the Map, and the attempts
\* of every campaign before a step are a prefix of its attempts after it.
C16_AttemptsAppendOnly ==
    [][\A campaignId \in MapKeys(campaignRetryStates) :
          /\ MapHas(campaignRetryStates', campaignId)
          /\ IsPrefix(StateOf(campaignRetryStates, campaignId).attempts,
                      StateOf(campaignRetryStates', campaignId).attempts)]_vars

\* C16 witness: a campaign holds attempts of two different hours and has been
\* given a disabled configuration since it was last dispatched.
C16_Witness ==
    \E i \in 1..Len(campaignRetryStates) :
        LET retryState == campaignRetryStates[i].retryState IN
        /\ Len(retryState.attempts) = 2
        /\ retryState.attempts[1].executedAt < retryState.attempts[2].executedAt
        /\ ~retryState.retryConfig.enabled

\* C17: the engine holds one interval timer when isRunning is TRUE and none
\* when it is FALSE, before and after every step; start() on a running engine
\* and stop() on a stopped engine change nothing.
C17_OneTimerIffRunning ==
    [][/\ timers = (IF isRunning THEN 1 ELSE 0)
       /\ timers' = (IF isRunning' THEN 1 ELSE 0)
       /\ retryInterval' = isRunning'
       /\ (isRunning /\ Start) => UNCHANGED vars
       /\ (~isRunning /\ Stop) => UNCHANGED vars]_vars

\* C17 witness: a running engine with its one timer, whose tick is in progress.
C17_Witness ==
    /\ isRunning
    /\ timers = 1
    /\ retryInterval
    /\ \E slot \in TicksInProgress : ticks[slot].source = "timer"

\* The call of campaignId that slot holds before the step is still held after
\* it, or the step appends its attempt.
CallSurvivesOrRecords(slot, campaignId) ==
    \/ \E f \in ticks'[slot].executions : f.campaignId = campaignId
    \/ Records(campaignId)

\* C18: no timer-fired batch starts while isRunning is FALSE, and a call in
\* flight, whether or not the engine has been stopped, stays in flight until
\* the step that appends its attempt.
C18_StopKeepsTickInFlight ==
    [][/\ \A slot \in 1..MaxTicks :
              (Dispatches(slot) /\ ticks'[slot].source = "timer") => isRunning
       /\ \A slot \in 1..MaxTicks : \A e \in ticks[slot].executions :
              MapHas(campaignRetryStates, e.campaignId)
                  => CallSurvivesOrRecords(slot, e.campaignId)]_vars

\* C18 witness: the engine is stopped, holds no timer, and a timer-fired tick
\* is still in flight.
C18_Witness ==
    /\ ~isRunning
    /\ timers = 0
    /\ \E slot \in TicksInProgress :
           /\ ticks[slot].source = "timer"
           /\ ticks[slot].executions # {}

CallEnds(slot, campaignId) ==
    /\ \A f \in ticks'[slot].executions : f.campaignId # campaignId
    /\ Records(campaignId)

\* C20: the end of the call of one campaign of a batch, whatever the executor
\* answered, leaves the state of every other campaign in the Map and the calls
\* of the other campaigns of the batch as they were.
C20_CallsOfABatchAreIsolated ==
    [][\A slot \in 1..MaxTicks : \A e \in ticks[slot].executions :
          CallEnds(slot, e.campaignId)
          => /\ \A c \in MapKeys(campaignRetryStates) \ {e.campaignId} :
                    StateOf(campaignRetryStates', c) = StateOf(campaignRetryStates, c)
             /\ \A f \in ticks[slot].executions :
                    f.campaignId # e.campaignId => f \in ticks'[slot].executions]_vars

\* C20 witness: of a batch of two campaigns, the call of one ended with a failed
\* attempt and the call of the other is still in flight.
C20_Witness ==
    \E slot \in TicksInProgress :
        /\ Len(ticks[slot].batch) = 2
        /\ Cardinality(ticks[slot].executions) = 1
        /\ Recorded = 1
        /\ \E i \in 1..2 :
               LET c == ticks[slot].batch[i] IN
               /\ \A e \in ticks[slot].executions : e.campaignId # c
               /\ MapHas(campaignRetryStates, c)
               /\ Len(StateOf(campaignRetryStates, c).attempts) = 1
               /\ LastAttempt(StateOf(campaignRetryStates, c)).status = "failed"

\* C21: the batch a processRetries execution starts holds every campaign once,
\* with one call each, and every campaign of it is, in the Map the scan reads,
\* enabled, not marked expired, not past its deadline, and has a nextAttemptAt
\* that is set and not after the clock.
C21_BatchIsDueAndDistinct ==
    [][\A slot \in 1..MaxTicks :
          Dispatches(slot)
          => LET batch == ticks'[slot].batch
                 executions == ticks'[slot].executions
             IN  /\ \A i, j \in 1..Len(batch) : i # j => batch[i] # batch[j]
                 /\ Cardinality(executions) = Len(batch)
                 /\ {e.campaignId : e \in executions}
                        = {batch[i] : i \in 1..Len(batch)}
                 /\ \A i \in 1..Len(batch) :
                        /\ MapHas(campaignRetryStates, batch[i])
                        /\ LET retryState == StateOf(campaignRetryStates, batch[i])
                               ttlDateTime == retryState.retryConfig.ttlDateTime
                           IN  /\ retryState.retryConfig.enabled
                               /\ ~retryState.isExpired
                               /\ ttlDateTime = Undefined \/ ~(now > ttlDateTime)
                               /\ retryState.nextAttemptAt # Undefined
                               /\ retryState.nextAttemptAt <= now]_vars

\* C21 witness: a tick holds the calls of a batch of two campaigns, both due.
C21_Witness ==
    \E slot \in TicksInProgress :
        /\ Len(ticks[slot].batch) = 2
        /\ Cardinality(ticks[slot].executions) = 2
        /\ \A e \in ticks[slot].executions :
               /\ e.live
               /\ IsDue(campaignRetryStates, e.campaignId, now)

\* C22: right after clearRetryTtl removed the retry_ttl of a campaign,
\* getCampaignsForRetry does not return the campaign.
C22_ClearedIsNotDue ==
    [][\A campaignId \in Campaigns :
          ( /\ campaignsTable[campaignId].retry_ttl # Undefined
            /\ campaignsTable'[campaignId].retry_ttl = Undefined )
          => ~IsDue(campaignRetryStates', campaignId, now')]_vars

\* C23: a step that changes the row of a campaign leaves the Map with a state
\* of the campaign whose deadline is the retry_ttl of the row: a window that
\* fails validation changes neither.
C23_RowAndMapAgree ==
    [][\A campaignId \in Campaigns :
          ( /\ campaignsTable'[campaignId] # campaignsTable[campaignId]
            /\ campaignsTable'[campaignId].retry_ttl # Undefined )
          => /\ MapHas(campaignRetryStates', campaignId)
             /\ StateOf(campaignRetryStates', campaignId).retryConfig.ttlDateTime
                    = campaignsTable'[campaignId].retry_ttl]_vars

\* C26: no campaign of the Map has an enabled retryConfig whose deadline is
\* more than 7 days after its scheduledDateTime.
C26_DeadlineWithinSevenDays ==
    \A i \in 1..Len(campaignRetryStates) :
        LET retryConfig == campaignRetryStates[i].retryState.retryConfig IN
        ( /\ retryConfig.enabled
          /\ retryConfig.ttlDateTime # Undefined
          /\ retryConfig.scheduledDateTime # Undefined )
        => retryConfig.ttlDateTime
               <= retryConfig.scheduledDateTime + MaxRetryConfigDays * HoursPerDay

\* The latest direct call was of op, with dates that parse.
CalledValidator(op) ==
    /\ lastCall.op = op
    /\ lastCall.args[1] # InvalidDate
    /\ lastCall.args[2] # InvalidDate

Valid == [isValid |-> TRUE, errors |-> << >>]

IntervalsOf(errorCode) ==
    CASE errorCode = "131049" -> <<12, 24, 48>>
      [] errorCode = "130472" -> <<24, 24, 24>>
      [] errorCode = "132015" -> <<24>>
      [] OTHER -> << >>

\* C27: calculateNextRetryAttempt(errorCode, i, last, deadline) answers no
\* retry when the clock is past the deadline, errorCode has no policy, i is
\* not below the number of intervals, or last + intervals[i] is after the
\* deadline; otherwise it answers shouldRetry with nextAttemptAt = last +
\* intervals[i].
C27_NextAttemptIsLastPlusInterval ==
    lastCall.op = "calculateNextRetryAttempt"
    => LET errorCode == lastCall.args[1]
           i == lastCall.args[2]
           last == lastCall.args[3]
           deadline == lastCall.args[4]
           intervals == IntervalsOf(errorCode)
           none == \/ lastCall.clock > deadline
                   \/ errorCode \notin {"131049", "130472", "132015"}
                   \/ i >= Len(intervals)
                   \/ last + intervals[i + 1] > deadline
       IN  IF none
           THEN lastCall.result = [nextAttemptAt |-> Undefined, shouldRetry |-> FALSE]
           ELSE lastCall.result
                    = [nextAttemptAt |-> last + intervals[i + 1], shouldRetry |-> TRUE]

\* C27 witness: code 131049 with index 0 was answered last + 12, after the
\* clock moved.
C27_Witness ==
    /\ lastCall.op = "calculateNextRetryAttempt"
    /\ lastCall.clock > 0
    /\ lastCall.args[1] = "131049"
    /\ lastCall.args[2] = 0
    /\ lastCall.result = [nextAttemptAt |-> lastCall.args[3] + 12, shouldRetry |-> TRUE]

\* C28: isRetryTtlExpired(deadline) is true exactly when the clock is after the
\* deadline.
C28_ExpiredIsStrictlyAfter ==
    lastCall.op = "isRetryTtlExpired"
    => ( lastCall.result.expired <=> lastCall.clock > lastCall.args[1] )

\* C28 witness: isRetryTtlExpired was called with the present hour as the
\* deadline, after the clock moved, and answered false.
C28_Witness ==
    /\ lastCall.op = "isRetryTtlExpired"
    /\ lastCall.clock > 0
    /\ lastCall.args[1] = lastCall.clock
    /\ ~lastCall.result.expired

\* C29: processRetryAttempt answers by the first of its tests that applies, in
\* the order disabled, deadline missing or passed, no policy, template paused,
\* and only then by the interval computation; an answer with shouldRetry FALSE
\* has no nextAttemptAt and a reason, one with shouldRetry TRUE has a
\* nextAttemptAt.
C29_ChecksInOrder ==
    lastCall.op = "processRetryAttempt"
    => LET errorCode == lastCall.args[2]
           retryState == lastCall.args[3]
           retryConfig == retryState.retryConfig
           result == lastCall.result
       IN  /\ result.reason =
                  ( IF ~retryConfig.enabled THEN "disabled"
                    ELSE IF retryConfig.ttlDateTime = Undefined
                            \/ lastCall.clock > retryConfig.ttlDateTime
                    THEN "expired"
                    ELSE IF errorCode \notin {"131049", "130472", "132015"}
                    THEN "no policy"
                    ELSE IF errorCode = "132015" /\ ~lastCall.templateActive
                    THEN "blocked"
                    ELSE IF result.shouldRetry THEN "scheduled" ELSE "exhausted" )
           /\ result.reason \in {"scheduled", "exhausted"}
                  => LET i == Len(retryState.attempts)
                         last == IF retryState.lastAttemptAt # Undefined
                                 THEN retryState.lastAttemptAt ELSE lastCall.clock
                         intervals == IntervalsOf(errorCode)
                     IN  result.shouldRetry
                         <=> /\ i < Len(intervals)
                             /\ last + intervals[i + 1] <= retryConfig.ttlDateTime
           /\ ~result.shouldRetry => result.nextAttemptAt = Undefined /\ result.reason # ""
           /\ result.shouldRetry => result.nextAttemptAt # Undefined

\* C29 witness: a disabled state with a deadline that has passed was asked
\* about a code without policy, and the answer was "disabled".
C29_Witness ==
    /\ lastCall.op = "processRetryAttempt"
    /\ ~lastCall.args[3].retryConfig.enabled
    /\ lastCall.args[3].retryConfig.ttlDateTime # Undefined
    /\ lastCall.clock > lastCall.args[3].retryConfig.ttlDateTime
    /\ lastCall.args[2] \in UnknownErrorCodes
    /\ lastCall.result.reason = "disabled"

\* isExpired as computed from the deadline of retryConfig at the hour clock.
ExpiredBy(retryConfig, clock) ==
    retryConfig.ttlDateTime # Undefined /\ clock > retryConfig.ttlDateTime

\* No state of the Map other than that of campaignId differs after the step.
OthersUnchanged(campaignId) ==
    \A other \in MapKeys(campaignRetryStates) \ {campaignId} :
        /\ MapHas(campaignRetryStates', other)
        /\ StateOf(campaignRetryStates', other) = StateOf(campaignRetryStates, other)

\* C30: a step that replaces the retryConfig of a campaign of the Map leaves
\* its attempts, lastAttemptAt and nextAttemptAt as they were and sets isExpired
\* by the new deadline; a step that adds a campaign to the Map gives it no
\* attempts, no lastAttemptAt and no nextAttemptAt; in both cases the states of
\* the other campaigns are unchanged.
C30_SetRetryConfigFrame ==
    [][\A campaignId \in Campaigns :
          /\ ( /\ MapHas(campaignRetryStates, campaignId)
               /\ MapHas(campaignRetryStates', campaignId)
               /\ StateOf(campaignRetryStates', campaignId).retryConfig
                      # StateOf(campaignRetryStates, campaignId).retryConfig )
             => LET old == StateOf(campaignRetryStates, campaignId)
                    new == StateOf(campaignRetryStates', campaignId)
                IN  /\ new.attempts = old.attempts
                    /\ new.lastAttemptAt = old.lastAttemptAt
                    /\ new.nextAttemptAt = old.nextAttemptAt
                    /\ new.isExpired = ExpiredBy(new.retryConfig, now)
                    /\ OthersUnchanged(campaignId)
          /\ ( /\ ~MapHas(campaignRetryStates, campaignId)
               /\ MapHas(campaignRetryStates', campaignId) )
             => LET new == StateOf(campaignRetryStates', campaignId) IN
                /\ new.attempts = << >>
                /\ new.lastAttemptAt = Undefined
                /\ new.nextAttemptAt = Undefined
                /\ new.isExpired = ExpiredBy(new.retryConfig, now)
                /\ OthersUnchanged(campaignId)]_vars

\* C30 witness: of two campaigns, one with a recorded attempt and a
\* nextAttemptAt has been given a deadline that had passed, and is marked
\* expired.
C30_Witness ==
    /\ Len(campaignRetryStates) = 2
    /\ \E i \in 1..2 :
           LET retryState == campaignRetryStates[i].retryState IN
           /\ Len(retryState.attempts) = 1
           /\ retryState.nextAttemptAt = 24
           /\ retryState.retryConfig.ttlDateTime = 0
           /\ retryState.isExpired

\* C31: a retryState obtained from the Map by a call that is still in progress
\* is not changed by any step: in every step, each executeCampaignRetry call
\* that goes on holds the same retryState value after the step as before.
C31_HeldStateNeverChanges ==
    [][\A slot \in 1..MaxTicks :
          \A e \in ticks[slot].executions, held \in ticks'[slot].executions :
              held.campaignId = e.campaignId => held.retryState = e.retryState]_vars

\* C32: no step changes the position of a campaign in the Map, and every
\* processRetries execution that dispatches takes as its batch the first
\* min(n, maxConcurrentRetries) of the n due campaigns in the order of the Map:
\* a due campaign behind maxConcurrentRetries campaigns that stay due is in no
\* batch.
C32_NoCrossTickFairness ==
    [][/\ Len(campaignRetryStates') >= Len(campaignRetryStates)
       /\ \A i \in 1..Len(campaignRetryStates) :
              campaignRetryStates'[i].campaignId = campaignRetryStates[i].campaignId
       /\ \A slot \in 1..MaxTicks :
              Dispatches(slot) =>
                  LET due == getCampaignsForRetry(campaignRetryStates, now)
                      k == Min(Len(due), config.maxConcurrentRetries)
                  IN  ticks'[slot].batch = [i \in 1..k |-> due[i].campaignId]]_vars

\* C32 witness: the second campaign of the Map was due from hour 0 to its
\* deadline, which has passed, and has no attempt, while the first campaign
\* has had two.
C32_Witness ==
    /\ Len(campaignRetryStates) = 2
    /\ Len(campaignRetryStates[1].retryState.attempts) = 2
    /\ LET starved == campaignRetryStates[2].retryState IN
       /\ starved.attempts = << >>
       /\ starved.retryConfig.enabled
       /\ starved.nextAttemptAt = 0
       /\ starved.retryConfig.ttlDateTime = 0
       /\ now > starved.retryConfig.ttlDateTime

\* C33: from the empty Map, under setRetryConfig, updateRetryAttempt, start,
\* stop, timer ticks and triggerRetryProcessing, no campaign has nextAttemptAt
\* set, getCampaignsForRetry returns the empty list, no executeCampaignRetry
\* call is in flight and none can end.
C33_EmptyStoreNeverDue ==
    /\ \A i \in 1..Len(campaignRetryStates) :
           campaignRetryStates[i].retryState.nextAttemptAt = Undefined
    /\ getCampaignsForRetry(campaignRetryStates, now) = << >>
    /\ InFlight = {}
    /\ TicksInProgress = {}
    /\ ~ENABLED CompleteExecution

\* C33 witness: the engine runs with its timer, the clock has moved, one
\* campaign is enabled with its deadline ahead and an attempt recorded by
\* updateRetryAttempt, another is past its deadline and marked expired.
C33_Witness ==
    /\ isRunning /\ timers = 1
    /\ now > 0
    /\ Len(campaignRetryStates) = 2
    /\ \E i \in 1..2 :
           LET retryState == campaignRetryStates[i].retryState
               other == campaignRetryStates[3 - i].retryState
           IN  /\ retryState.retryConfig.enabled
               /\ retryState.retryConfig.ttlDateTime > now
               /\ Len(retryState.attempts) = 1
               /\ retryState.lastAttemptAt = now
               /\ retryState.nextAttemptAt = Undefined
               /\ other.retryConfig.enabled
               /\ other.retryConfig.ttlDateTime = 0
               /\ other.isExpired

\* C34: a step that records a failed attempt of a campaign, executed at the
\* present hour, and gives the campaign a new nextAttemptAt, gives it one that
\* is after the present hour.
C34_NextAttemptAfterExecution ==
    [][\A campaignId \in Campaigns :
          ( /\ Records(campaignId)
            /\ LastAttempt(StateOf(campaignRetryStates', campaignId)).status = "failed"
            /\ LastAttempt(StateOf(campaignRetryStates', campaignId)).executedAt = now
            /\ StateOf(campaignRetryStates', campaignId).nextAttemptAt
                   # StateOf(campaignRetryStates, campaignId).nextAttemptAt )
          => StateOf(campaignRetryStates', campaignId).nextAttemptAt > now]_vars

\* C35: a step that records an attempt of a campaign and gives it a new
\* nextAttemptAt does so within the retry window the Map holds for the
\* campaign: the campaign is enabled and the new nextAttemptAt is not after
\* its deadline.
C35_DecisionHonoursStoredWindow ==
    [][\A campaignId \in Campaigns :
          ( /\ Records(campaignId)
            /\ StateOf(campaignRetryStates', campaignId).nextAttemptAt
                   # StateOf(campaignRetryStates, campaignId).nextAttemptAt )
          => LET stored == StateOf(campaignRetryStates', campaignId) IN
             /\ stored.retryConfig.enabled
             /\ stored.retryConfig.ttlDateTime # Undefined
             /\ stored.nextAttemptAt <= stored.retryConfig.ttlDateTime]_vars

\* C36: every campaign getCampaignsForRetry returns is one for which
\* isRetryActive answers true at the same hour; an enabled campaign without
\* ttlDateTime is not returned.
C36_DueIsRetryActive ==
    LET due == getCampaignsForRetry(campaignRetryStates, now) IN
    \A i \in 1..Len(due) :
        /\ isRetryActive(campaignRetryStates, due[i].campaignId, now)
        /\ due[i].retryState.retryConfig.ttlDateTime # Undefined

\* C37: for every campaign with a deadline, getRetryStatistics reports
\* isExpired true when the clock is past the deadline and no negative
\* timeToExpiry; totalAttempts is the length of the campaign's attempts.
C37_StatisticsFollowClock ==
    LET stats == getRetryStatistics(campaignRetryStates, now) IN
    \A campaignId \in MapKeys(campaignRetryStates) :
        LET retryState == StateOf(campaignRetryStates, campaignId) IN
        /\ stats[campaignId].totalAttempts = Len(retryState.attempts)
        /\ retryState.retryConfig.ttlDateTime # Undefined
           => /\ now > retryState.retryConfig.ttlDateTime => stats[campaignId].isExpired
              /\ \A timeToExpiry \in stats[campaignId].timeToExpiry : timeToExpiry >= 0
====
